---- MODULE Spec2Model ----
(***************************************************************************)
(* Model of the automotive scraping pipeline:                              *)
(*   NormalMainScraper (normal_code_main.py) drives, chunk by chunk, one   *)
(*   scrape_automotive task per category behind an asyncio.Semaphore,      *)
(*   exports each non-empty result, uploads the files through              *)
(*   SavingOnDrive.save_files (SavingOnDrive.py) with retries and removes  *)
(*   the local files.                                                      *)
(*                                                                         *)
(* A string that the code splits on whitespace is modelled as the sequence *)
(* of its whitespace-separated tokens; a calendar day is a small integer   *)
(* and strftime maps it to its "%Y-%m-%d" text.                            *)
(***************************************************************************)
EXTENDS Integers, Sequences, FiniteSets, TLC

\* ------------------------------------------------------------------ bounds
MaxCats      == 3   \* categories in automotives_data: 1..MaxCats
MaxMidnights == 1   \* midnights that may pass while the run is in progress
MaxItems     == 9   \* chunking alone: automotives_data has 0..MaxItems entries
MaxSlice     == 4   \* chunking alone: chunk_size is 1..MaxSlice

\* ------------------------------------------------------- program constants
DefaultChunkSize == 2   \* self.chunk_size as __init__ sets it
DefaultMaxLinks  == 2   \* self.max_concurrent_links as __init__ sets it
upload_retries   == 3   \* self.upload_retries
NumRoots         == 2   \* len(self.parent_folder_ids)

\* --------------------------------------------------------------- the state
VARIABLES
    num_cats,             \* len(self.automotives_data); the categories are 1..num_cats in dict order
    chunk_size,           \* self.chunk_size
    max_concurrent_links, \* self.max_concurrent_links
    automotive_chunks,    \* the local automotive_chunks: a list of lists of categories
    service,              \* self.drive_saver.service: "None" until authenticate() built it
    now,                  \* the wall-clock day (datetime.now())
    pc,                   \* where scrape_all_automotives is
    chunk_index,          \* enumerate(automotive_chunks, 1)
    idx,                  \* position of the running for-loop in the chunk / in pending_uploads
    tpc,                  \* per category: state of its scrape_automotive task
    urls,                 \* per category: the task's `urls`, a sequence of [ok, page_count]
    pos,                  \* per category: <<template index, page>> about to be requested
    car_data,             \* per category: the task's car_data list
    yesterday,            \* per category: the task's local `yesterday`
    sem,                  \* the semaphore's _value
    fetched,              \* per category: outcome of every get_car_details call so far
    result,               \* per category: what `await task` gave the orchestrator
    pending_uploads,      \* the chunk's pending_uploads list
    files,                \* local artifact files that exist
    exported,             \* artifacts save_to_excel ever wrote
    removeTried,          \* artifacts os.remove was called on
    attempt,              \* upload_files_with_retry's local `attempt`
    outcome,              \* per artifact: the branch upload_files_with_retry ended in
    cur,                  \* the artifact the following five are about (0: none yet)
    calls,                \* save_files calls made for that artifact
    delays,               \* time.sleep(upload_retry_delay) pauses made for it
    last_call,            \* the remote calls of the latest save_files call, in order
    tried,                \* roots some remote call was made against, for that artifact
    firstNotFound,        \* its first save_files call met a 404
    onlyHttp,             \* every save_files call for it raised a non-404 HttpError
    folder_name,          \* save_files' local `yesterday` in its latest call ("": no call yet)
    resolved,             \* <<root, folder name>> pairs get_or_create_folder has returned an id
                          \* for, in the save_files calls of the retry loop that is running
    missing,              \* roots get_or_create_folder has returned None for, in those calls
    reresolved,           \* while that loop runs: pairs its latest save_files call called
                          \* get_or_create_folder for although an earlier call had got their id
    revisited,            \* while that loop runs: roots its latest save_files call made a remote
                          \* call against although an earlier call had got None for them
    uploads               \* while that loop runs: per root, its upload_file calls that
                          \* returned normally

cfgVars  == <<num_cats, chunk_size, max_concurrent_links, automotive_chunks, service>>
taskVars == <<tpc, urls, pos, car_data, yesterday, sem, fetched>>
mainVars == <<pc, chunk_index, idx, result, pending_uploads, files, exported, removeTried>>
upVars   == <<attempt, outcome, cur, calls, delays, last_call, tried, firstNotFound, onlyHttp,
             folder_name, resolved, missing, reresolved, revisited, uploads>>
vars     == <<cfgVars, now, taskVars, mainVars, upVars>>

Cats == 1..num_cats
N    == num_cats

Min(a, b) == IF a < b THEN a ELSE b

\* ------------------------------------------------------------------ inputs
\* A URL template with its page count; ok = FALSE is a template on which
\* url_template.format(page) raises (e.g. "{}/{}" or "{page}").
Tmpl(ok, n) == [ok |-> ok, page_count |-> n]

\* The values of automotives_data: what a category's list of (template,
\* page count) pairs may be.
PlanSet ==
    { << Tmpl(TRUE, 2) >>,
      << Tmpl(TRUE, 1), Tmpl(TRUE, 0), Tmpl(TRUE, 1) >>,
      << Tmpl(TRUE, 1), Tmpl(FALSE, 1) >> }

\* datetime.strftime("%Y-%m-%d") of a day
strftime(day) ==
    CASE day = 0 -> "2024-01-01"
      [] day = 1 -> "2024-01-02"
      [] day = 2 -> "2024-01-03"
      [] OTHER   -> "2024-01-04"

\* A scraped record: has = the dict holds the key "date_published";
\* date_published = the tokens of its value.
Car(has, toks) == [has |-> has, date_published |-> toks]

CarA    == Car(TRUE,  << "2024-01-01", "09:15:00" >>)
CarB    == Car(TRUE,  << "2024-01-01", "17:40:00" >>)
CarNext == Car(TRUE,  << "2024-01-02", "08:00:00" >>)
CarJunk == Car(TRUE,  << "yesterday" >>)
CarNone == Car(FALSE, << >>)

PageSet ==
    { << CarB, CarNext, CarJunk, CarA >>,
      << CarA, CarNone, CarB >> }

\* ----------------------------------------------------------- pure helpers
\* list(self.automotives_data.items()): the categories in dict order.
Items == [i \in 1..N |-> i]

\* The Python slice s[i:j] of a list (0 <= i <= j).
Slice_DropsLast(s, i, j) == SubSeq(s, i + 1, Min(j, Len(s)) - 1)
Slice(s, i, j) == SubSeq(s, i + 1, Min(j, Len(s)))

\* The list comprehension of lines 124-127 from offset i on:
\* list(items)[i:i + chunk_size] for i in range(0, len, chunk_size)
RECURSIVE SlicesFrom(_)
SlicesFrom(i) ==
    IF i >= N THEN << >>
    ELSE << Slice(Items, i, i + chunk_size) >> \o SlicesFrom(i + chunk_size)

\* The chunk loop's view of automotive_chunks: chunk k (counted from 1, as
\* enumerate does), its categories, its first and its last category.
NumChunks == Len(automotive_chunks)
Chunk(k)  == { automotive_chunks[k][j] : j \in DOMAIN automotive_chunks[k] }
ChunkOf(c) == CHOOSE k \in 1..NumChunks : c \in Chunk(k)
ChunkFirst(k) == automotive_chunks[k][1]
ChunkLast(k)  == automotive_chunks[k][Len(automotive_chunks[k])]

\* The two nested for-loops of scrape_automotive as a cursor.
EndPos == << 0, 0 >>

FirstPos_CountsZero(plan, ti) ==
    IF ti > Len(plan) THEN EndPos ELSE << ti, 1 >>

RECURSIVE FirstPos(_, _)
FirstPos(plan, ti) ==
    IF ti > Len(plan) THEN EndPos
    ELSE IF plan[ti].page_count >= 1 THEN << ti, 1 >>
    ELSE FirstPos(plan, ti + 1)

NextPos(plan, p) ==
    IF p[2] < plan[p[1]].page_count THEN << p[1], p[2] + 1 >>
    ELSE FirstPos(plan, p[1] + 1)

\* car.get("date_published", "")
GetDatePublished(car) == IF car.has THEN car.date_published ELSE << >>

\* The for-car loop of one page: the records appended, and whether the loop
\* raised (``"".split()[0]`` is an IndexError on an empty token list).
RECURSIVE FilterCars(_, _, _)
FilterCars(cars, target, acc) ==
    IF cars = << >> THEN [kept |-> acc, raised |-> FALSE]
    ELSE LET toks == GetDatePublished(Head(cars)) IN
         IF toks = << >> THEN [kept |-> acc, raised |-> TRUE]
         ELSE IF Head(toks) = target
              THEN FilterCars(Tail(cars), target, Append(acc, Head(cars)))
              ELSE FilterCars(Tail(cars), target, acc)

\* ------------------------------------------------------------------- Init
\* Nothing has run yet.
Fresh ==
    /\ automotive_chunks = << >>
    /\ service = "None"
    /\ now = 1
    /\ chunk_index = 0
    /\ idx = 0
    /\ tpc = [c \in Cats |-> "none"]
    /\ urls = [c \in Cats |-> << >>]
    /\ pos = [c \in Cats |-> EndPos]
    /\ car_data = [c \in Cats |-> << >>]
    /\ yesterday = [c \in Cats |-> ""]
    /\ sem = 0
    /\ fetched = [c \in Cats |-> << >>]
    /\ result = [c \in Cats |-> "none"]
    /\ pending_uploads = << >>
    /\ files = {}
    /\ exported = {}
    /\ removeTried = {}
    /\ attempt = 0
    /\ outcome = [c \in Cats |-> "none"]
    /\ cur = 0
    /\ calls = 0
    /\ delays = 0
    /\ last_call = << >>
    /\ tried = {}
    /\ firstNotFound = FALSE
    /\ onlyHttp = TRUE
    /\ folder_name = ""
    /\ resolved = {}
    /\ missing = {}
    /\ reresolved = {}
    /\ revisited = {}
    /\ uploads = [q \in 1..NumRoots |-> 0]

Init ==
    /\ num_cats \in 1..MaxCats
    /\ chunk_size \in 1..DefaultChunkSize
    /\ max_concurrent_links \in 1..DefaultMaxLinks
    /\ pc = "setup"
    /\ Fresh

\* ------------------------------------------------- the clock (environment)
\* Midnight passes: datetime.now() moves to the next day.
Midnight ==
    /\ now < 1 + MaxMidnights
    /\ pc \notin {"setup", "ended", "aborted"}
    /\ now' = now + 1
    /\ UNCHANGED <<cfgVars, taskVars, mainVars, upVars>>

\* ------------------------------------------------ the semaphore (asyncio)
CanAcquire_Unbounded(s) == TRUE
CanAcquire(s) == s > 0
Release_Keeps(s) == s
Release_Twice(s) == s + 2
Release(s)    == s + 1

\* ---------------------------------------------------- scrape_automotive
\* The task has passed ``async with semaphore``: with no page to request it
\* leaves the block at once (acquire and release in one step).
Enter(c) ==
    LET fp == FirstPos(urls[c], 1) IN
    IF fp = EndPos
    THEN /\ tpc' = [tpc EXCEPT ![c] = "done"]
         /\ UNCHANGED <<pos, sem>>
    ELSE /\ tpc' = [tpc EXCEPT ![c] = "holding"]
         /\ pos' = [pos EXCEPT ![c] = fp]
         /\ sem' = sem - 1

\* The task starts running: lines 47-51.
TaskStart(c) ==
    /\ tpc[c] = "created"
    /\ yesterday' = [yesterday EXCEPT ![c] = strftime(now - 1)]
    /\ car_data' = [car_data EXCEPT ![c] = << >>]
    /\ IF CanAcquire(sem)
       THEN Enter(c)
       ELSE /\ tpc' = [tpc EXCEPT ![c] = "waiting"]
            /\ UNCHANGED <<pos, sem>>
    /\ UNCHANGED <<cfgVars, now, urls, fetched, mainVars, upVars>>

\* A waiting task is admitted.
Acquire(c) ==
    /\ tpc[c] = "waiting"
    /\ CanAcquire(sem)
    /\ Enter(c)
    /\ UNCHANGED <<cfgVars, now, urls, car_data, yesterday, fetched, mainVars, upVars>>

\* Where the loops go after a page whose try-block raised (``continue``).
AfterPageError_Break(plan, p) == FirstPos(plan, p[1] + 1)
AfterPageError(plan, p) == NextPos(plan, p)

\* The cursor moves to np; past the last page the block is left and the
\* task returns car_data.
MoveTo(c, np) ==
    IF np = EndPos
    THEN /\ tpc' = [tpc EXCEPT ![c] = "done"]
         /\ pos' = [pos EXCEPT ![c] = EndPos]
         /\ sem' = Release(sem)
    ELSE /\ pos' = [pos EXCEPT ![c] = np]
         /\ UNCHANGED <<tpc, sem>>

Fetch(c, ok, cars, slept) == [pos |-> pos[c], ok |-> ok, cars |-> cars, slept |-> slept]

\* url_template.format(page) raises (line 54, outside the try): the
\* exception leaves the block, which releases the slot, and ends the task.
FormatRaises(c) ==
    /\ tpc[c] = "holding"
    /\ ~ urls[c][pos[c][1]].ok
    /\ tpc' = [tpc EXCEPT ![c] = "raised"]
    /\ pos' = [pos EXCEPT ![c] = EndPos]
    /\ sem' = Release(sem)
    /\ car_data' = [car_data EXCEPT ![c] = << >>]
    /\ UNCHANGED <<cfgVars, now, urls, yesterday, fetched, mainVars, upVars>>

\* get_car_details raises: logged, next page, no sleep (lines 62-64).
PageFails(c) ==
    /\ tpc[c] = "holding"
    /\ urls[c][pos[c][1]].ok
    /\ fetched' = [fetched EXCEPT ![c] = Append(@, Fetch(c, FALSE, << >>, FALSE))]
    /\ MoveTo(c, AfterPageError(urls[c], pos[c]))
    /\ UNCHANGED <<cfgVars, now, urls, car_data, yesterday, mainVars, upVars>>

\* get_car_details returns cars: the filter loop, then the page delay unless
\* the loop raised (lines 57-64).
PageReturns(c, cars) ==
    /\ tpc[c] = "holding"
    /\ urls[c][pos[c][1]].ok
    /\ LET f == FilterCars(cars, yesterday[c], << >>) IN
       /\ car_data' = [car_data EXCEPT ![c] = @ \o f.kept]
       /\ fetched' = [fetched EXCEPT ![c] = Append(@, Fetch(c, TRUE, cars, ~ f.raised))]
       /\ MoveTo(c, IF f.raised THEN AfterPageError(urls[c], pos[c])
                                ELSE NextPos(urls[c], pos[c]))
    /\ UNCHANGED <<cfgVars, now, urls, yesterday, mainVars, upVars>>

\* ------------------------------------------------ scrape_all_automotives
\* Lines 112-121: credentials or authenticate() fail; the run returns.
OnSetupError_GoesOn == "dispatch"
OnSetupError == "aborted"

SetupFails ==
    /\ pc = "setup"
    /\ pc' = OnSetupError
    /\ UNCHANGED <<cfgVars, now, taskVars, chunk_index, idx, result,
                   pending_uploads, files, exported, removeTried, upVars>>

\* Lines 112-131: authenticated; the chunks and the semaphore are built.
SetupOk ==
    /\ pc = "setup"
    /\ service' = "built"
    /\ automotive_chunks' = SlicesFrom(0)
    /\ pc' = "dispatch"
    /\ chunk_index' = 1
    /\ idx' = automotive_chunks'[1][1]
    /\ sem' = max_concurrent_links
    /\ UNCHANGED <<num_cats, chunk_size, max_concurrent_links, now, urls, tpc, pos, car_data, yesterday, fetched, result,
                   pending_uploads, files, exported, removeTried, upVars>>

\* Lines 135-140: create_task for the next category, then sleep(2). What is
\* recorded about a chunk (its results, its artifacts and their files, and
\* pending_uploads, which line 140 rebinds before it is read again) is the
\* current chunk's: the chunk's first create_task starts it afresh.
CreateTask(plan) ==
    /\ pc = "dispatch"
    /\ tpc' = [tpc EXCEPT ![idx] = "created"]
    /\ urls' = [urls EXCEPT ![idx] = plan]
    /\ IF idx < ChunkLast(chunk_index)
       THEN idx' = idx + 1 /\ pc' = pc
       ELSE idx' = ChunkFirst(chunk_index) /\ pc' = "await"
    /\ IF idx = ChunkFirst(chunk_index)
       THEN /\ result' = [c \in Cats |-> "none"]
            /\ outcome' = [c \in Cats |-> "none"]
            /\ pending_uploads' = << >>
            /\ files' = {}
            /\ exported' = {}
            /\ removeTried' = {}
       ELSE UNCHANGED <<result, outcome, pending_uploads, files, exported, removeTried>>
    /\ UNCHANGED <<cfgVars, now, pos, car_data, yesterday, sem, fetched, chunk_index,
                   attempt, cur, calls, delays, last_call, tried, firstNotFound, onlyHttp,
                   folder_name, resolved, missing, reresolved, revisited, uploads>>

\* Line 162: after a chunk's work, the delay before the next chunk or the end.
AfterChunk(k) == IF k < NumChunks THEN "chunk_delay" ELSE "ended"

\* Lines 152-153: after the await loop.
AfterAwait_SkipUpload(pend, k) == AfterChunk(k)
AfterAwait(pend, k) == IF pend # << >> THEN "upload" ELSE AfterChunk(k)

\* What an exception out of ``await task`` does to the loop (lines 148-149):
\* logged, the loop goes on.
OnTaskError_Propagates(next) == "crashed"
OnTaskError(next) == next

AwaitNext_LeavesEarly(pend) ==
    /\ idx' = 1
    /\ pc' = AfterAwait(pend, chunk_index)

\* The await loop moves past category idx with pending list pend.
AwaitNext(pend) ==
    IF idx < ChunkLast(chunk_index)
    THEN /\ idx' = idx + 1
         /\ pc' = pc
    ELSE /\ idx' = 1
         /\ pc' = AfterAwait(pend, chunk_index)

\* Lines 141-149, task raised.
AwaitRaised ==
    /\ pc = "await"
    /\ tpc[idx] = "raised"
    /\ tpc' = [tpc EXCEPT ![idx] = "consumed"]
    /\ result' = [result EXCEPT ![idx] = "raised"]
    /\ fetched' = [fetched EXCEPT ![idx] = << >>]
    /\ yesterday' = [yesterday EXCEPT ![idx] = ""]
    /\ urls' = [urls EXCEPT ![idx] = << >>]
    /\ LET next == IF idx < ChunkLast(chunk_index) THEN "await"
                   ELSE AfterAwait(pending_uploads, chunk_index) IN
       /\ pc' = OnTaskError(next)
       /\ idx' = IF idx < ChunkLast(chunk_index) /\ pc' = "await" THEN idx + 1 ELSE 1
    /\ UNCHANGED <<cfgVars, now, pos, car_data, sem, chunk_index,
                   pending_uploads, files, exported, removeTried, upVars>>

\* Lines 141-147, task returned an empty list: nothing is saved.
AwaitEmpty ==
    /\ pc = "await"
    /\ tpc[idx] = "done"
    /\ car_data[idx] = << >>
    /\ tpc' = [tpc EXCEPT ![idx] = "consumed"]
    /\ result' = [result EXCEPT ![idx] = "empty"]
    /\ fetched' = [fetched EXCEPT ![idx] = << >>]
    /\ yesterday' = [yesterday EXCEPT ![idx] = ""]
    /\ urls' = [urls EXCEPT ![idx] = << >>]
    /\ AwaitNext(pending_uploads)
    /\ UNCHANGED <<cfgVars, now, pos, car_data, sem, chunk_index,
                   pending_uploads, files, exported, removeTried, upVars>>

\* Lines 141-147 and save_to_excel: the file is written and queued.
AwaitSaved ==
    /\ pc = "await"
    /\ tpc[idx] = "done"
    /\ car_data[idx] # << >>
    /\ tpc' = [tpc EXCEPT ![idx] = "consumed"]
    /\ result' = [result EXCEPT ![idx] = "saved"]
    /\ car_data' = [car_data EXCEPT ![idx] = << >>]
    /\ fetched' = [fetched EXCEPT ![idx] = << >>]
    /\ yesterday' = [yesterday EXCEPT ![idx] = ""]
    /\ urls' = [urls EXCEPT ![idx] = << >>]
    /\ files' = files \cup {idx}
    /\ exported' = exported \cup {idx}
    /\ pending_uploads' = Append(pending_uploads, idx)
    /\ AwaitNext(pending_uploads')
    /\ UNCHANGED <<cfgVars, now, pos, sem, chunk_index, removeTried, upVars>>

\* Lines 141-147 and save_to_excel lines 80-82: writing the file fails,
\* save_to_excel returns None.
AwaitSaveFails ==
    /\ pc = "await"
    /\ tpc[idx] = "done"
    /\ car_data[idx] # << >>
    /\ tpc' = [tpc EXCEPT ![idx] = "consumed"]
    /\ result' = [result EXCEPT ![idx] = "save_failed"]
    /\ car_data' = [car_data EXCEPT ![idx] = << >>]
    /\ fetched' = [fetched EXCEPT ![idx] = << >>]
    /\ yesterday' = [yesterday EXCEPT ![idx] = ""]
    /\ urls' = [urls EXCEPT ![idx] = << >>]
    /\ AwaitNext(pending_uploads)
    /\ UNCHANGED <<cfgVars, now, pos, sem, chunk_index,
                   pending_uploads, files, exported, removeTried, upVars>>

\* Lines 162-164 and the next iteration of the chunk loop.
NextChunk ==
    /\ pc = "chunk_delay"
    /\ pc' = "dispatch"
    /\ chunk_index' = chunk_index + 1
    /\ idx' = ChunkFirst(chunk_index + 1)
    /\ UNCHANGED <<cfgVars, now, taskVars, result, pending_uploads, files,
                   exported, removeTried, upVars>>

\* ----------------------------------------------------------- SavingOnDrive
Roots == 1..NumRoots

\* What the remote store does to the calls made for one root during one
\* save_files call: both calls succeed; get_or_create_folder's request
\* raises HttpError 404, another HttpError or another exception; or the
\* folder is resolved and upload_file's request raises one of the three.
Answers == { "ok", "resolve404", "resolveHttp", "resolveExc",
             "upload404", "uploadHttp", "uploadExc" }

\* One save_files call's answers, root by root. A call that raises makes no
\* call against the roots after the one it raised at: they have no answer
\* to choose ("ok" stands for it).
Raises(ans) == ans \in {"resolveHttp", "resolveExc", "upload404", "uploadHttp", "uploadExc"}

AnswerVectors ==
    { a \in [Roots -> Answers] :
         \A q, r \in Roots : (q < r /\ Raises(a[q])) => a[r] = "ok" }

Ev(r, op, res) == [root |-> r, op |-> op, res |-> res]

GetOrCreateFolder_IdOnMissing(ans) ==
    CASE ans = "resolve404"  -> [ret |-> "id",   exc |-> "none", res |-> "404"]
      [] ans = "resolveHttp" -> [ret |-> "None", exc |-> "http", res |-> "http"]
      [] ans = "resolveExc"  -> [ret |-> "None", exc |-> "exc",  res |-> "exc"]
      [] OTHER               -> [ret |-> "id",   exc |-> "none", res |-> "ok"]

\* get_or_create_folder: the folder id ("id"), None on HttpError 404, or the
\* exception it lets through (lines 66-71; other exceptions are not caught).
GetOrCreateFolder(ans) ==
    CASE ans = "resolve404"  -> [ret |-> "None", exc |-> "none", res |-> "404"]
      [] ans = "resolveHttp" -> [ret |-> "None", exc |-> "http", res |-> "http"]
      [] ans = "resolveExc"  -> [ret |-> "None", exc |-> "exc",  res |-> "exc"]
      [] OTHER               -> [ret |-> "id",   exc |-> "none", res |-> "ok"]

\* upload_file with a folder id: every exception is logged and re-raised
\* (lines 92-94).
UploadFile(ans) ==
    CASE ans = "upload404"  -> [exc |-> "http404", res |-> "404"]
      [] ans = "uploadHttp" -> [exc |-> "http",    res |-> "http"]
      [] ans = "uploadExc"  -> [exc |-> "exc",     res |-> "exc"]
      [] OTHER              -> [exc |-> "none",    res |-> "ok"]

\* Lines 104-106: the root whose folder is None is skipped (`continue`).
AfterMissing_Stops(r) == NumRoots + 1
AfterMissing(r) == r + 1

\* save_files([file]) from root r on (lines 101-114): the remote calls made,
\* in order, and the exception raised to the caller ("none": it returned).
RECURSIVE SaveFiles(_, _, _)
SaveFiles(a, r, trace) ==
    IF r > NumRoots THEN [trace |-> trace, exc |-> "none"]
    ELSE LET g  == GetOrCreateFolder(a[r])
             t1 == Append(trace, Ev(r, "resolve", g.res)) IN
         IF g.exc # "none" THEN [trace |-> t1, exc |-> g.exc]
         ELSE IF g.ret = "None" THEN SaveFiles(a, AfterMissing(r), t1)
         ELSE LET u  == UploadFile(a[r])
                  t2 == Append(t1, Ev(r, "upload", u.res)) IN
              IF u.exc # "none" THEN [trace |-> t2, exc |-> u.exc]
              ELSE SaveFiles(a, r + 1, t2)

\* ------------------------------------------------ upload_files_with_retry
\* The while condition (line 88).
RetryAgain_OffByOne(a) == a <= upload_retries
RetryAgain(a) == a < upload_retries

\* The branch one save_files call ends in (lines 92-104).
Classify_HttpGivesUp(exc) ==
    CASE exc = "none"    -> "Uploaded"
      [] exc = "http404" -> "SkippedPermanent"
      [] OTHER           -> "Unexpected"
Classify(exc) ==
    CASE exc = "none"    -> "Uploaded"
      [] exc = "http404" -> "SkippedPermanent"
      [] exc = "http"    -> "retry"
      [] OTHER           -> "Unexpected"

\* One iteration of the while loop for pending_uploads[idx]: one save_files
\* call and what follows it, up to the next call.
SaveFilesCall(a) ==
    /\ pc = "upload"
    /\ LET file  == pending_uploads[idx]
           fresh == attempt = 0
           r     == SaveFiles(a, 1, << >>)
           how   == Classify(r.exc)
           att   == IF how = "retry" THEN attempt + 1 ELSE attempt
           over  == how # "retry" \/ ~ RetryAgain(att)
           roots == { r.trace[i].root : i \in DOMAIN r.trace }
           nf    == \E i \in DOMAIN r.trace : r.trace[i].res = "404"
           name  == strftime(now - 1)
           ids   == { r.trace[i].root : i \in { j \in DOMAIN r.trace :
                          r.trace[j].op = "resolve" /\ r.trace[j].res = "ok" } }
           nones == { r.trace[i].root : i \in { j \in DOMAIN r.trace :
                          r.trace[j].op = "resolve" /\ r.trace[j].res = "404" } }
       IN
       /\ folder_name' = name
       /\ resolved' = IF over THEN {} ELSE resolved \cup { << q, name >> : q \in ids }
       /\ missing' = IF over THEN {} ELSE missing \cup nones
       /\ reresolved' = IF over THEN {}
                        ELSE { << r.trace[i].root, name >> : i \in { j \in DOMAIN r.trace :
                                   r.trace[j].op = "resolve" } } \cap resolved
       /\ revisited' = IF over THEN {} ELSE roots \cap missing
       /\ uploads' = [q \in Roots |->
                        IF over THEN 0
                        ELSE uploads[q]
                             + (IF \E i \in DOMAIN r.trace : r.trace[i] = Ev(q, "upload", "ok")
                                THEN 1 ELSE 0)]
       /\ cur' = file
       /\ calls' = IF fresh THEN 1 ELSE calls + 1
       /\ delays' = (IF fresh THEN 0 ELSE delays) + (IF how = "retry" THEN 1 ELSE 0)
       /\ last_call' = r.trace
       /\ tried' = (IF fresh THEN {} ELSE tried) \cup roots
       /\ firstNotFound' = IF fresh THEN nf ELSE firstNotFound
       /\ onlyHttp' = ((fresh \/ onlyHttp) /\ r.exc = "http")
       /\ outcome' = [outcome EXCEPT ![file] =
                        IF how = "retry" THEN (IF over THEN "Exhausted" ELSE "none")
                        ELSE how]
       /\ attempt' = IF over THEN 0 ELSE att
       /\ IF ~ over THEN UNCHANGED <<pc, idx>>
          ELSE IF idx < Len(pending_uploads)
               THEN idx' = idx + 1 /\ pc' = pc
               ELSE idx' = 1 /\ pc' = "cleanup"
    /\ UNCHANGED <<cfgVars, now, taskVars, chunk_index, result, pending_uploads,
                   files, exported, removeTried>>

\* ------------------------------------------------------- cleanup (154-159)
\* What a failing os.remove does to the loop: logged, the loop goes on.
OnRemoveError_Abort(next) == AfterChunk(chunk_index)
OnRemoveError(next) == next

RemoveNext ==
    IF idx < Len(pending_uploads) THEN "cleanup" ELSE AfterChunk(chunk_index)

\* upload_files_with_retry has returned: what was recorded about its last
\* artifact is dropped; each artifact's outcome stays.
FrameGone ==
    /\ cur' = 0
    /\ calls' = 0
    /\ delays' = 0
    /\ last_call' = << >>
    /\ tried' = {}
    /\ firstNotFound' = FALSE
    /\ onlyHttp' = TRUE
    /\ folder_name' = ""
    /\ resolved' = {}
    /\ missing' = {}
    /\ reresolved' = {}
    /\ revisited' = {}
    /\ uploads' = [q \in Roots |-> 0]
    /\ UNCHANGED <<attempt, outcome>>

RemoveOk ==
    /\ pc = "cleanup"
    /\ removeTried' = removeTried \cup {pending_uploads[idx]}
    /\ files' = files \ {pending_uploads[idx]}
    /\ pc' = RemoveNext
    /\ idx' = IF pc' = "cleanup" THEN idx + 1 ELSE 1
    /\ FrameGone
    /\ UNCHANGED <<cfgVars, now, taskVars, chunk_index, result, pending_uploads,
                   exported>>

RemoveFails ==
    /\ pc = "cleanup"
    /\ removeTried' = removeTried \cup {pending_uploads[idx]}
    /\ pc' = OnRemoveError(RemoveNext)
    /\ idx' = IF pc' = "cleanup" THEN idx + 1 ELSE 1
    /\ FrameGone
    /\ UNCHANGED <<cfgVars, now, taskVars, chunk_index, result, pending_uploads,
                   files, exported>>

\* ------------------------------------------------------------------- Next
Next ==
    \/ Midnight
    \/ SetupFails
    \/ SetupOk
    \/ \E plan \in PlanSet : CreateTask(plan)
    \/ \E c \in Cats : TaskStart(c)
    \/ \E c \in Cats : Acquire(c)
    \/ \E c \in Cats : FormatRaises(c)
    \/ \E c \in Cats : PageFails(c)
    \/ \E c \in Cats : \E cars \in PageSet : PageReturns(c, cars)
    \/ AwaitRaised
    \/ AwaitEmpty
    \/ AwaitSaved
    \/ AwaitSaveFails
    \/ \E a \in AnswerVectors : SaveFilesCall(a)
    \/ RemoveOk
    \/ RemoveFails
    \/ NextChunk

Spec == Init /\ [][Next]_vars

\* ------------------------------------------------------------- scheduling
\* The coroutine scrape_all_automotives: the event loop resumes it whenever
\* what it awaits is over, and every blocking call it makes (save_files,
\* time.sleep, os.remove, save_to_excel) returns or raises.
Orchestrator ==
    \/ SetupFails
    \/ SetupOk
    \/ \E plan \in PlanSet : CreateTask(plan)
    \/ AwaitRaised
    \/ AwaitEmpty
    \/ AwaitSaved
    \/ AwaitSaveFails
    \/ \E a \in AnswerVectors : SaveFilesCall(a)
    \/ RemoveOk
    \/ RemoveFails
    \/ NextChunk

\* The task of category c: the event loop runs a created task, wakes a
\* waiter once the semaphore has a free slot, and every get_car_details
\* call returns or raises.
Task(c) ==
    /\ c \in Cats
    /\ \/ TaskStart(c)
       \/ Acquire(c)
       \/ FormatRaises(c)
       \/ PageFails(c)
       \/ \E cars \in PageSet : PageReturns(c, cars)

FairSpec ==
    /\ Spec
    /\ WF_vars(Orchestrator)
    /\ \A c \in 1..MaxCats : WF_vars(Task(c))

\* ---------------------------------------------------- the chunking alone
\* Lines 124-127 on their own, for mappings of 0..MaxItems categories and
\* chunk sizes 1..MaxSlice: each step is one iteration of the comprehension,
\* i = 0, chunk_size, 2 * chunk_size, ... while i < len.
InitChunks ==
    /\ num_cats \in 0..MaxItems
    /\ chunk_size \in 1..MaxSlice
    /\ max_concurrent_links = DefaultMaxLinks
    /\ pc = "chunking"
    /\ Fresh

ChunkSlice ==
    /\ pc = "chunking"
    /\ LET i == Len(automotive_chunks) * chunk_size IN
       /\ i < N
       /\ automotive_chunks' = Append(automotive_chunks, Slice(Items, i, i + chunk_size))
    /\ UNCHANGED <<num_cats, chunk_size, max_concurrent_links, service, now,
                   taskVars, mainVars, upVars>>

NextChunks == ChunkSlice

SpecChunks == InitChunks /\ [][NextChunks]_vars

\* ----------------------------------------------------------------- claims
Holders == { c \in Cats : tpc[c] = "holding" }

\* C1: at every moment at most max_concurrent_links scrape_automotive tasks
\* are inside the semaphore-guarded block.
C1_SlotBound == Cardinality(Holders) <= max_concurrent_links

\* A task waits for a slot while every slot is taken.
C1_Witness ==
    /\ \E c \in Cats : tpc[c] = "waiting"
    /\ Cardinality(Holders) = max_concurrent_links

\* The records of a page whose derived publish date is the target date, in
\* page order; a record without a usable date is left out.
DateWindow(cars, target) ==
    LET Match(car) == /\ car.has
                      /\ car.date_published # << >>
                      /\ Head(car.date_published) = target
    IN SelectSeq(cars, Match)

RECURSIVE Collected(_, _)
Collected(fs, target) ==
    IF fs = << >> THEN << >>
    ELSE (IF Head(fs).ok THEN DateWindow(Head(fs).cars, target) ELSE << >>)
         \o Collected(Tail(fs), target)

\* C2: from every page the extractor returned, exactly the records dated the
\* target date are appended, in page order; a record with no usable
\* date_published is left out and costs no other record of the page.
C2_ExactDateWindow ==
    \A c \in Cats :
        tpc[c] \in {"holding", "done"} => car_data[c] = Collected(fetched[c], yesterday[c])

Finished == cur # 0 /\ outcome[cur] # "none"

\* C3: when upload_files_with_retry is through with an artifact, a remote
\* call was made against every configured root for it.
C3_EveryRootTried == Finished => tried = Roots

LastRes == last_call[Len(last_call)].res

\* C5 as stated: upload_files_with_retry is through with an artifact after a
\* failure other than a 404 only when upload_retries calls were made.
C5_EveryFailureRetried ==
    (Finished /\ last_call # << >> /\ LastRes \in {"http", "exc"}) => calls = upload_retries

\* C5 amended: a non-404 HttpError is retried until upload_retries calls were
\* made; an exception that is no HttpError ends the artifact's upload at
\* once, without a retry or a delay after it.
C5_HttpErrorRetried ==
    (cur # 0 /\ last_call # << >>) =>
        /\ (Finished /\ LastRes = "http") =>
               (calls = upload_retries /\ outcome[cur] = "Exhausted")
        /\ (LastRes = "http") => delays = calls
        /\ (LastRes = "exc") => (outcome[cur] = "Unexpected" /\ delays = calls - 1)

\* A second call is made for an artifact whose first call raised a non-404
\* HttpError.
C5_Witness == cur # 0 /\ onlyHttp /\ calls = 2 /\ outcome[cur] = "none"

\* C6: an artifact whose first save_files call met a 404 gets exactly one
\* call, no retry delay, and ends permanently skipped.
C6_NotFoundOnce ==
    (cur # 0 /\ firstNotFound) =>
        /\ calls = 1
        /\ delays = 0
        /\ outcome[cur] = "SkippedPermanent"

\* Everything chunk k had to do is done: every task consumed, every artifact
\* through upload_files_with_retry and through os.remove.
ChunkComplete(k) ==
    /\ attempt = 0
    /\ \A d \in Chunk(k) :
          /\ tpc[d] = "consumed"
          /\ result[d] # "none"
          /\ d \in exported => (outcome[d] # "none" /\ d \in removeTried)

\* C7: a task is created only for a category of the current chunk, and the
\* first task of chunk N+1 only when chunk N is complete.
C7_ChunkBarrier ==
    [][ \A c \in Cats :
          (tpc[c] = "none" /\ tpc'[c] # "none") =>
              /\ ChunkOf(c) = chunk_index
              /\ \A d \in Cats : ChunkOf(d) > chunk_index => tpc[d] = "none"
              /\ (chunk_index > 1 /\ c = ChunkFirst(chunk_index)) =>
                    ChunkComplete(chunk_index - 1) ]_vars

\* The next chunk's first task is about to be created after a chunk whose
\* artifacts went through upload and removal.
C7_Witness ==
    /\ pc = "dispatch"
    /\ chunk_index > 1
    /\ idx = ChunkFirst(chunk_index)
    /\ exported # {}
    /\ ChunkComplete(chunk_index - 1)

\* C8: os.remove is called on an artifact only after the whole upload batch is
\* through; when the cleanup loop is over it was called on every artifact of
\* the chunk, whatever the outcome and whatever removals failed; and a file
\* is gone only through it.
C8_CleanupAll ==
    /\ removeTried # {} =>
          \A i \in DOMAIN pending_uploads : outcome[pending_uploads[i]] # "none"
    /\ pc \in {"chunk_delay", "ended"} => exported \subseteq removeTried
    /\ files \subseteq exported
    /\ (exported \ files) \subseteq removeTried

\* A removal failed, and a later artifact, whose upload ended exhausted, was
\* removed all the same.
C8_Witness ==
    /\ pc \in {"chunk_delay", "ended"}
    /\ Len(pending_uploads) = 2
    /\ pending_uploads[1] \in files
    /\ pending_uploads[2] \notin files
    /\ outcome[pending_uploads[2]] = "Exhausted"

\* C9: a failed task does not keep the chunk from finishing: once the await
\* loop is over every task of the chunk was awaited, every non-empty result
\* went to save_to_excel, every written artifact is queued and, after the
\* upload stage, went through upload_files_with_retry.
C9_SiblingsUnaffected ==
    /\ pc # "crashed"
    /\ pc \in {"upload", "cleanup", "chunk_delay", "ended"} =>
          \A c \in Chunk(chunk_index) :
              /\ tpc[c] = "consumed"
              /\ result[c] # "none"
              /\ result[c] = "saved" =>
                    \E i \in DOMAIN pending_uploads : pending_uploads[i] = c
    /\ pc \in {"cleanup", "chunk_delay", "ended"} =>
          \A c \in Chunk(chunk_index) : result[c] = "saved" => outcome[c] # "none"

\* A task raised, was awaited first, and its sibling's result was saved and
\* went through the upload stage.
C9_Witness ==
    /\ pc \in {"cleanup", "chunk_delay", "ended"}
    /\ \E c, d \in Chunk(chunk_index) :
          /\ c < d
          /\ result[c] = "raised"
          /\ result[d] = "saved"
          /\ outcome[d] # "none"

\* The pages of a plan in request order.
RECURSIVE PlanPages(_, _)
PlanPages(plan, ti) ==
    IF ti > Len(plan) THEN << >>
    ELSE [p \in 1..plan[ti].page_count |-> << ti, p >>] \o PlanPages(plan, ti + 1)

RECURSIVE Kept(_, _)
Kept(fs, target) ==
    IF fs = << >> THEN << >>
    ELSE (IF Head(fs).ok THEN FilterCars(Head(fs).cars, target, << >>).kept ELSE << >>)
         \o Kept(Tail(fs), target)

\* C10: a task that returns has requested every page of its plan, in order,
\* whatever pages failed, and its list holds what every page gave.
C10_PageFailureSkipsOnlyThatPage ==
    \A c \in Cats :
        /\ tpc[c] \in {"holding", "done"} => car_data[c] = Kept(fetched[c], yesterday[c])
        /\ tpc[c] = "done" =>
              [i \in DOMAIN fetched[c] |-> fetched[c][i].pos] = PlanPages(urls[c], 1)

\* One task returned after its first page failed and its second did not;
\* another returned with the records of its first page after its second
\* page failed.
C10_Witness ==
    \E c, d \in Cats :
        /\ tpc[c] = "done" /\ tpc[d] = "done"
        /\ Len(fetched[c]) = 2 /\ ~ fetched[c][1].ok /\ fetched[c][2].ok
        /\ Len(fetched[d]) = 2 /\ fetched[d][1].ok /\ ~ fetched[d][2].ok
        /\ car_data[d] # << >>
        /\ car_data[d] = FilterCars(fetched[d][1].cars, yesterday[d], << >>).kept

\* ----------------------------------------------------------------- C11
\* The chunks laid end to end.
RECURSIVE Flat(_)
Flat(chunks) == IF chunks = << >> THEN << >> ELSE Head(chunks) \o Flat(Tail(chunks))

\* The comprehension has run to its end.
Built == Len(automotive_chunks) * chunk_size >= N

\* C11: chunking is exhaustive and order-preserving: the chunks built so
\* far, laid end to end, are the categories in their original order with no
\* omission and no duplicate (all of them once the comprehension is over),
\* no chunk is empty or longer than chunk_size, and every chunk but the
\* last holds exactly chunk_size categories.
C11_ChunkingExhaustive ==
    LET flat == Flat(automotive_chunks) IN
    /\ Len(flat) <= N
    /\ flat = SubSeq(Items, 1, Len(flat))
    /\ Built => flat = Items
    /\ \A k \in DOMAIN automotive_chunks :
          /\ Len(automotive_chunks[k]) \in 1..chunk_size
          /\ k < Len(automotive_chunks) => Len(automotive_chunks[k]) = chunk_size

\* A mapping cut into three or more chunks of three or more categories, the
\* last one short.
C11_Witness ==
    /\ pc = "chunking"
    /\ Built
    /\ chunk_size >= 3
    /\ Len(automotive_chunks) >= 3
    /\ Len(automotive_chunks[Len(automotive_chunks)]) < chunk_size
    /\ Flat(automotive_chunks) = Items

\* ----------------------------------------------------------------- C12
\* Nothing of any chunk has happened: no chunk list, no task, no extractor
\* call, no export, no remote call.
Untouched ==
    /\ automotive_chunks = << >>
    /\ chunk_index = 0
    /\ \A c \in Cats : /\ tpc[c] = "none"
                       /\ fetched[c] = << >>
                       /\ car_data[c] = << >>
                       /\ result[c] = "none"
                       /\ outcome[c] = "none"
    /\ pending_uploads = << >>
    /\ exported = {}
    /\ files = {}
    /\ cur = 0
    /\ calls = 0
    /\ last_call = << >>

\* C12: when loading the credentials or authenticating fails, the run ends
\* there without processing any chunk: as long as the Drive service is not
\* built the run is either still setting up or over, nothing of any chunk
\* has happened, and once the run has returned nothing more happens.
C12_NoWorkWithoutAuth ==
    /\ service = "None" => (pc \in {"setup", "aborted"} /\ Untouched)
    /\ pc = "aborted" => (service = "None" /\ ~ ENABLED Next)

\* Setup failed for a mapping of several categories.
C12_Witness ==
    /\ pc = "aborted"
    /\ service = "None"
    /\ num_cats >= 2

\* ----------------------------------------------------------------- C13
\* scrape_all_automotives has returned.
Returned == pc \in {"ended", "aborted"}

\* C13: with every extractor call and every remote call returning or
\* raising, the run eventually returns and stays returned. It returns only
\* after the last chunk, with every task of the mapping admitted, finished
\* and awaited, no retry loop running and every queued file's removal
\* tried; nothing happens after that, and the inter-chunk delay is never
\* slept after the last chunk.
C13_Terminates ==
    /\ <>[] Returned
    /\ [] (pc = "chunk_delay" => chunk_index < NumChunks)
    /\ [] (pc = "ended" =>
             /\ chunk_index = NumChunks
             /\ \A c \in Cats : tpc[c] = "consumed"
             /\ \A i \in DOMAIN pending_uploads : pending_uploads[i] \in removeTried
             /\ ~ ENABLED Next)

\* The run is over after several chunks, the last of which had a task wait
\* for a slot (one slot, two tasks) and a file uploaded and removed.
C13_Witness ==
    /\ pc = "ended"
    /\ NumChunks >= 2
    /\ chunk_size > max_concurrent_links
    /\ pending_uploads # << >>
    /\ \A c \in Cats : tpc[c] = "consumed"

\* ----------------------------------------------------------------- C14
\* C14 as stated: the dated subfolder is looked up or created at most once
\* per (root, date) pair: no save_files call calls get_or_create_folder for
\* a pair an earlier call has the id of.
C14_ResolvedOncePerPair == reresolved = {}

\* C14 as the code has it: within one save_files call get_or_create_folder
\* is called at most once per root, the roots in their order, and an upload
\* to a root comes right after the call that returned that root's folder
\* id; nothing is kept between calls: every save_files call, a retry
\* included, starts with get_or_create_folder for the first root.
C14_ResolvedOncePerCall ==
    LET t == last_call IN
    /\ \A i, j \in DOMAIN t :
          (t[i].op = "resolve" /\ t[j].op = "resolve" /\ i < j) => t[i].root < t[j].root
    /\ \A i \in DOMAIN t :
          t[i].op = "upload" => (i > 1 /\ t[i - 1] = Ev(t[i].root, "resolve", "ok"))
    /\ t # << >> => (t[1].op = "resolve" /\ t[1].root = 1)

\* A retry call that looked both folders up again, one call each, and
\* uploaded to both with the ids it got (the last upload failed again).
C14_Witness ==
    /\ calls >= 2
    /\ reresolved = { << q, folder_name >> : q \in Roots }
    /\ Len(last_call) = 2 * NumRoots
    /\ last_call[2] = Ev(1, "upload", "ok")

\* ----------------------------------------------------------------- C15
\* C15 as stated: a root found missing is terminal: no later call, folder
\* resolution or upload, is made against it.
C15_MissingRootTerminal == revisited = {}

\* C15 as the code has it: a root whose folder resolution answered 404 is
\* skipped for that save_files call only: the call makes no other call
\* against it and goes on with the next root (or returns after the last
\* one); the root is not remembered as missing.
C15_MissingRootSkippedInCall ==
    LET t == last_call IN
    \A i \in DOMAIN t :
       t[i] = Ev(t[i].root, "resolve", "404") =>
          /\ \A j \in DOMAIN t : t[j].root = t[i].root => j = i
          /\ IF t[i].root < NumRoots
             THEN i < Len(t) /\ t[i + 1].op = "resolve" /\ t[i + 1].root = t[i].root + 1
             ELSE i = Len(t)

\* The first root was missing in an earlier call of the loop; the retry
\* asked for it again, found it missing again and went on to the next root.
C15_Witness ==
    /\ calls >= 2
    /\ 1 \in revisited
    /\ last_call[1] = Ev(1, "resolve", "404")
    /\ Len(last_call) > 1
    /\ last_call[2].root = 2

\* ----------------------------------------------------------------- C16
\* C16: within one category a page_delay pause lies between any two
\* successive get_car_details calls, whether the earlier one succeeded or
\* failed: every call that another call followed was followed by the pause.
C16_PacedFetches ==
    \A c \in Cats :
       \A i \in 1..(Len(fetched[c]) - 1) : fetched[c][i].slept

\* ----------------------------------------------------------------- C17
\* A task that is not inside the ``async with`` block.
Outside(c) == tpc[c] \in {"none", "created", "waiting", "done", "raised", "consumed"}

\* C17: a task gives its slot back on every way out of the block (normal
\* end, every page failing, an exception escaping): once the semaphore
\* exists, its free slots plus the tasks inside the block are always
\* max_concurrent_links, so no slot is lost or given back twice, and when
\* no task is inside the block all max_concurrent_links slots are free.
C17_SlotsReturned ==
    service = "built" =>
       /\ sem \in 0..max_concurrent_links
       /\ sem + Cardinality(Holders) = max_concurrent_links
       /\ (\A c \in Cats : Outside(c)) => sem = max_concurrent_links

\* Both tasks of a chunk are over, one by an escaping exception and one
\* after every one of its pages failed, and every slot is free again.
C17_Witness ==
    /\ pc = "await"
    /\ sem = max_concurrent_links
    /\ \E c, d \in Chunk(chunk_index) :
          /\ tpc[c] = "raised"
          /\ tpc[d] = "done"
          /\ fetched[d] # << >>
          /\ \A i \in DOMAIN fetched[d] : ~ fetched[d][i].ok
    /\ \A c \in Chunk(chunk_index) : tpc[c] \in {"raised", "done"}

\* ----------------------------------------------------------------- C18
\* The pages category c's task has requested so far, in request order.
Requested(c) == [i \in DOMAIN fetched[c] |-> fetched[c][i].pos]

\* C18: within one category the pages are requested strictly in plan
\* order, templates in the order of the list and pages 1..page_count
\* ascending, each once: what has been requested is always the beginning of
\* the plan's page list (which has no page of a template with page_count
\* 0), the one page about to be requested is the next of that list, a task
\* that returned has requested all of it, and the records collected are
\* those of the pages in that same order.
C18_PlanOrder ==
    \A c \in Cats :
       tpc[c] \in {"holding", "done", "raised"} =>
          LET req  == Requested(c)
              plan == PlanPages(urls[c], 1) IN
          /\ Len(req) <= Len(plan)
          /\ req = SubSeq(plan, 1, Len(req))
          /\ tpc[c] = "holding" => (Len(req) < Len(plan) /\ pos[c] = plan[Len(req) + 1])
          /\ tpc[c] = "done" => (req = plan /\ car_data[c] = Kept(fetched[c], yesterday[c]))

\* A task returned from a plan whose second template has page_count 0: it
\* requested page 1 of the first template, then page 1 of the third, and
\* returned the records of the first followed by those of the third.
C18_Witness ==
    \E c \in Cats :
       /\ tpc[c] = "done"
       /\ Len(urls[c]) = 3
       /\ urls[c][2].page_count = 0
       /\ Requested(c) = << << 1, 1 >>, << 3, 1 >> >>
       /\ fetched[c][1].cars # fetched[c][2].cars
       /\ car_data[c] = FilterCars(fetched[c][1].cars, yesterday[c], << >>).kept
                        \o FilterCars(fetched[c][2].cars, yesterday[c], << >>).kept
       /\ Len(car_data[c]) >= 3

\* ----------------------------------------------------------------- C19
\* The day before the day the run started on (Init: now = 1).
TargetAtStart == strftime(0)

\* C19: one run uses a single target date fixed at run start: every task
\* filters against that date and every save_files call names the dated
\* folder by it, whatever the wall-clock day has become.
C19_SingleTargetDate ==
    /\ \A c \in Cats : yesterday[c] # "" => yesterday[c] = TargetAtStart
    /\ folder_name # "" => folder_name = TargetAtStart

\* ----------------------------------------------------------------- C20
\* C20: the upload stage never interleaves with harvesting: while
\* upload_files_with_retry runs (its retry delays included) or the local
\* files are being removed, no task is created, waiting or inside the
\* block and every slot is free; the queued files are the chunk's saved
\* results in the order they were produced, and they are uploaded one at a
\* time in that order: the files before the one being uploaded have their
\* outcome, that one and those after it have none, and the save_files calls
\* counted are for the file being uploaded or the one just finished.
C20_UploadAfterHarvest ==
    pc \in {"upload", "cleanup"} =>
       /\ \A c \in Cats : tpc[c] \in {"none", "consumed"}
       /\ sem = max_concurrent_links
       /\ \A i, j \in DOMAIN pending_uploads :
             i < j => pending_uploads[i] < pending_uploads[j]
       /\ \A i \in DOMAIN pending_uploads :
             /\ pending_uploads[i] \in Chunk(chunk_index)
             /\ result[pending_uploads[i]] = "saved"
       /\ pc = "upload" =>
             /\ \A i \in DOMAIN pending_uploads :
                   (outcome[pending_uploads[i]] # "none") <=> (i < idx)
             /\ attempt > 0 => cur = pending_uploads[idx]
             /\ cur # 0 => cur \in { pending_uploads[i] : i \in {idx - 1, idx} \cap DOMAIN pending_uploads }
       /\ pc = "cleanup" =>
             \A i \in DOMAIN pending_uploads : outcome[pending_uploads[i]] # "none"

\* The second file of a chunk is between two attempts (a retry delay), the
\* first has its outcome, and no task is left.
C20_Witness ==
    /\ pc = "upload"
    /\ Len(pending_uploads) = 2
    /\ idx = 2
    /\ attempt >= 1
    /\ cur = pending_uploads[2]
    /\ outcome[pending_uploads[1]] # "none"
    /\ \A c \in Chunk(chunk_index) : tpc[c] = "consumed"

\* ----------------------------------------------------------------- C21
\* C21: an artifact is uploaded into a given root's dated folder at most
\* once: a retry after a failure against one root does not upload it again
\* into a root where an earlier attempt succeeded.
C21_UploadedOncePerRoot == \A q \in Roots : uploads[q] <= 1

\* ----------------------------------------------------------------- C22
\* The roots the latest save_files call uploaded the file into.
UploadedInto == { q \in Roots : \E i \in DOMAIN last_call : last_call[i] = Ev(q, "upload", "ok") }

\* C22: upload_files_with_retry reports an artifact as uploaded only when
\* the save_files call it reports on uploaded the file into the dated
\* folder of every configured root; a call that skipped a root whose
\* folder could not be resolved is not reported as a success.
C22_SuccessMeansEveryRoot ==
    (Finished /\ outcome[cur] = "Uploaded") => UploadedInto = Roots

====
